---------------------------- MODULE Spec2Model ----------------------------
(***************************************************************************)
(* A model of va.py, the command-line virtual assistant: the persisted     *)
(* state (load_state / save_state over a JSON file), the command registry  *)
(* (command / resolve), the intent fallback (guess_intent), the built-in   *)
(* handlers and the read / resolve / execute loop of main.                 *)
(*                                                                         *)
(* A Python str is a sequence of one-character strings, so that strip,     *)
(* lower, isdigit, int, join, shlex.split and the JSON text of the state   *)
(* file are computed character by character.  The one non-ASCII character  *)
(* of the model, SUPERSCRIPT TWO, is written "U+00B2".                     *)
(***************************************************************************)
EXTENDS Integers, Sequences, FiniteSets, TLC

VARIABLES
    file,       \* the state file at STATE_PATH: Missing, or its text
    State,      \* the module global STATE (a Python value; STATE is a TLA+ keyword)
    COMMANDS,   \* the module global COMMANDS: name -> [fn, help]
    ALIASES,    \* the module global ALIASES: alias -> name
    HISTORY,    \* the module global HISTORY: the lines recorded so far
    clock,      \* the number of calls of datetime.now() so far
    pc,         \* where the process is: see PCs
    line,       \* main: the line read last, stripped
    parts,      \* main: the tokens of the current line
    cmd,        \* main: the command about to run
    args,       \* main: the arguments about to be passed
    how,        \* main: how cmd was found: "direct", "fallback" or "none"
    out,        \* what has been printed since the last prompt
    err,        \* main: the exception caught by the last call, "" if none
    status,     \* the exit status of the process, -1 while it runs
    mutated     \* whether a handler of this process has changed STATE

vars == <<file, State, COMMANDS, ALIASES, HISTORY, clock, pc, line, parts, cmd,
          args, how, out, err, status, mutated>>

\* Bounds of the model.
MaxHistory == 2

-----------------------------------------------------------------------------
(* Python str operations                                                   *)

UpperChars == <<"A","B","C","D","E","F","G","H","I","J","K","L","M",
                "N","O","P","Q","R","S","T","U","V","W","X","Y","Z">>
LowerChars == <<"a","b","c","d","e","f","g","h","i","j","k","l","m",
                "n","o","p","q","r","s","t","u","v","w","x","y","z">>

\* str.lower() on one character
LowerChar(c) ==
    IF \E i \in 1..Len(UpperChars) : UpperChars[i] = c
    THEN LowerChars[CHOOSE i \in 1..Len(UpperChars) : UpperChars[i] = c]
    ELSE c

\* str.lower()
Lower(s) == [i \in 1..Len(s) |-> LowerChar(s[i])]

\* the characters str.strip() removes (those that can occur in a line)
IsSpace(c) == c \in {" ", "\t", "\r", "\n"}

RECURSIVE LStrip(_)
LStrip(s) == IF s # <<>> /\ IsSpace(Head(s)) THEN LStrip(Tail(s)) ELSE s

RECURSIVE RStrip(_)
RStrip(s) ==
    IF s # <<>> /\ IsSpace(s[Len(s)]) THEN RStrip(SubSeq(s, 1, Len(s) - 1)) ELSE s

\* str.strip()
Strip(s) == RStrip(LStrip(s))

\* " ".join(ws)
RECURSIVE Join(_)
Join(ws) ==
    IF ws = <<>> THEN <<>>
    ELSE IF Len(ws) = 1 THEN ws[1]
    ELSE ws[1] \o <<" ">> \o Join(Tail(ws))

AsciiDigits == <<"0","1","2","3","4","5","6","7","8","9">>

IsAsciiDigit(c) == \E i \in 1..Len(AsciiDigits) : AsciiDigits[i] = c

DigitValue(c) == (CHOOSE i \in 1..Len(AsciiDigits) : AsciiDigits[i] = c) - 1

\* str.isdigit(): every character is a digit character and there is at least
\* one; SUPERSCRIPT TWO is a digit character (category No) without being a
\* decimal digit.
IsDigit(s) == s # <<>> /\ \A i \in 1..Len(s) : IsAsciiDigit(s[i]) \/ s[i] = "U+00B2"

\* int(s) accepts s (here: a string that passed isdigit)
IntOk(s) == s # <<>> /\ \A i \in 1..Len(s) : IsAsciiDigit(s[i])

\* int(s) for a string of decimal digits
RECURSIVE PyInt(_)
PyInt(s) ==
    IF s = <<>> THEN 0 ELSE 10 * PyInt(SubSeq(s, 1, Len(s) - 1)) + DigitValue(s[Len(s)])

\* str(n) for n >= 0
RECURSIVE PyStr(_)
PyStr(n) ==
    IF n < 10 THEN <<AsciiDigits[n + 1]>>
    ELSE PyStr(n \div 10) \o <<AsciiDigits[(n % 10) + 1]>>

-----------------------------------------------------------------------------
(* shlex.split(line): POSIX mode, whitespace_split, no comments.           *)
(* The result is [ok |-> TRUE, toks |-> tokens], or [ok |-> FALSE] for the *)
(* ValueError of an unclosed quotation or a trailing escape.               *)
(* mode: "ws" between tokens, "word" in a token, "sq" / "dq" in quotes,    *)
(* "esc_word" / "esc_dq" after a backslash.                                *)

RECURSIVE Shlex(_, _, _, _, _)
Shlex(s, i, mode, tok, toks) ==
    IF i > Len(s) THEN
        CASE mode = "ws" -> [ok |-> TRUE, toks |-> toks]
          [] mode = "word" -> [ok |-> TRUE, toks |-> Append(toks, tok)]
          [] OTHER -> [ok |-> FALSE, toks |-> <<>>]
    ELSE LET c == s[i] IN
        CASE mode = "ws" ->
                IF IsSpace(c) THEN Shlex(s, i + 1, "ws", <<>>, toks)
                ELSE IF c = "\\" THEN Shlex(s, i + 1, "esc_word", <<>>, toks)
                ELSE IF c = "'" THEN Shlex(s, i + 1, "sq", <<>>, toks)
                ELSE IF c = "\"" THEN Shlex(s, i + 1, "dq", <<>>, toks)
                ELSE Shlex(s, i + 1, "word", <<c>>, toks)
          [] mode = "word" ->
                IF IsSpace(c) THEN Shlex(s, i + 1, "ws", <<>>, Append(toks, tok))
                ELSE IF c = "\\" THEN Shlex(s, i + 1, "esc_word", tok, toks)
                ELSE IF c = "'" THEN Shlex(s, i + 1, "sq", tok, toks)
                ELSE IF c = "\"" THEN Shlex(s, i + 1, "dq", tok, toks)
                ELSE Shlex(s, i + 1, "word", Append(tok, c), toks)
          [] mode = "sq" ->
                IF c = "'" THEN Shlex(s, i + 1, "word", tok, toks)
                ELSE Shlex(s, i + 1, "sq", Append(tok, c), toks)
          [] mode = "dq" ->
                IF c = "\"" THEN Shlex(s, i + 1, "word", tok, toks)
                ELSE IF c = "\\" THEN Shlex(s, i + 1, "esc_dq", tok, toks)
                ELSE Shlex(s, i + 1, "dq", Append(tok, c), toks)
          [] mode = "esc_word" -> Shlex(s, i + 1, "word", Append(tok, c), toks)
          [] mode = "esc_dq" ->
                IF c = "\"" \/ c = "\\"
                THEN Shlex(s, i + 1, "dq", Append(tok, c), toks)
                ELSE Shlex(s, i + 1, "dq", tok \o <<"\\", c>>, toks)

\* a defect: an unclosed quotation taken as one token instead of raising
shlex_split_lenient(s) ==
    IF Shlex(s, 1, "ws", <<>>, <<>>).ok THEN Shlex(s, 1, "ws", <<>>, <<>>)
    ELSE [ok |-> TRUE, toks |-> <<s>>]

\* shlex.split(s)
shlex_split(s) == Shlex(s, 1, "ws", <<>>, <<>>)

-----------------------------------------------------------------------------
(* Python values, as json.loads builds them and json.dumps writes them.    *)
(* A dict keeps its keys in insertion order, as Python's does.             *)

VStr(s) == [t |-> "str", s |-> s]
VBool(b) == [t |-> "bool", b |-> b]
VNone == [t |-> "None"]
VList(items) == [t |-> "list", items |-> items]
VDict(keys, vals) == [t |-> "dict", keys |-> keys, vals |-> vals]

IsDict(v) == v.t = "dict"
IsList(v) == v.t = "list"

KeyIndex(d, k) == CHOOSE i \in 1..Len(d.keys) : d.keys[i] = k

\* k in d, for a dict d
HasKey(d, k) == \E i \in 1..Len(d.keys) : d.keys[i] = k

\* d[k], for a dict d holding k
Get(d, k) == d.vals[KeyIndex(d, k)]

\* d[k] = v, for a dict d: an existing key keeps its place
DictSet(d, k, v) ==
    IF HasKey(d, k)
    THEN VDict(d.keys, [d.vals EXCEPT ![KeyIndex(d, k)] = v])
    ELSE VDict(Append(d.keys, k), Append(d.vals, v))

\* v[k] succeeds: v is a dict that holds k (KeyError or TypeError otherwise)
CanGet(v, k) == IsDict(v) /\ HasKey(v, k)

-----------------------------------------------------------------------------
(* json.dumps(v, indent=2), ensure_ascii left at its default               *)

\* a string's characters as JSON writes them
RECURSIVE Escape(_)
Escape(s) ==
    IF s = <<>> THEN <<>>
    ELSE LET c == Head(s) IN
        (CASE c = "\"" -> <<"\\", "\"">>
           [] c = "\\" -> <<"\\", "\\">>
           [] c = "\n" -> <<"\\", "n">>
           [] c = "\r" -> <<"\\", "r">>
           [] c = "\t" -> <<"\\", "t">>
           [] c = "U+00B2" -> <<"\\", "u", "0", "0", "b", "2">>
           [] OTHER -> <<c>>) \o Escape(Tail(s))

DumpStr(s) == <<"\"">> \o Escape(s) \o <<"\"">>

RECURSIVE Spaces(_)
Spaces(n) == IF n = 0 THEN <<>> ELSE <<" ">> \o Spaces(n - 1)

\* the line break and indentation before an element at nesting depth d
Indent(d) == <<"\n">> \o Spaces(2 * d)

\* a defect: every bool written as false
DumpBoolMut(b) == <<"f","a","l","s","e">>
\* a bool as JSON writes it
DumpBool(b) == IF b THEN <<"t","r","u","e">> ELSE <<"f","a","l","s","e">>

RECURSIVE Dumps(_, _), DumpItems(_, _), DumpPairs(_, _, _)
Dumps(v, d) ==
    CASE v.t = "str" -> DumpStr(v.s)
      [] v.t = "bool" -> DumpBool(v.b)
      [] v.t = "None" -> <<"n","u","l","l">>
      [] v.t = "list" ->
            IF v.items = <<>> THEN <<"[", "]">>
            ELSE <<"[">> \o DumpItems(v.items, d + 1) \o Indent(d) \o <<"]">>
      [] v.t = "dict" ->
            IF v.keys = <<>> THEN <<"{", "}">>
            ELSE <<"{">> \o DumpPairs(v.keys, v.vals, d + 1) \o Indent(d) \o <<"}">>

DumpItems(items, d) ==
    Indent(d) \o Dumps(Head(items), d)
        \o (IF Len(items) = 1 THEN <<>> ELSE <<",">> \o DumpItems(Tail(items), d))

DumpPairs(keys, vals, d) ==
    Indent(d) \o DumpStr(Head(keys)) \o <<":", " ">> \o Dumps(Head(vals), d)
        \o (IF Len(keys) = 1 THEN <<>> ELSE <<",">> \o DumpPairs(Tail(keys), Tail(vals), d))

json_dumps(v) == Dumps(v, 0)

-----------------------------------------------------------------------------
(* json.loads(s).  A parse step returns [ok, v, i]: whether it succeeded,  *)
(* the value, and the position after it; ok = FALSE is JSONDecodeError.    *)
(* Numbers are left out: no file of the model holds one.                   *)

ParseFail == [ok |-> FALSE, v |-> VNone, i |-> 0]
Parsed(v, i) == [ok |-> TRUE, v |-> v, i |-> i]

\* s has the characters of lit at position i
Matches(s, i, lit) ==
    /\ i + Len(lit) - 1 <= Len(s)
    /\ \A j \in 1..Len(lit) : s[i + j - 1] = lit[j]

\* the position of the first character at or after i that is not whitespace
RECURSIVE SkipWs(_, _)
SkipWs(s, i) == IF i <= Len(s) /\ IsSpace(s[i]) THEN SkipWs(s, i + 1) ELSE i

\* the rest of a string whose opening quote has been read
RECURSIVE ParseStr(_, _, _)
ParseStr(s, i, acc) ==
    IF i > Len(s) THEN ParseFail
    ELSE LET c == s[i] IN
        IF c = "\"" THEN Parsed(VStr(acc), i + 1)
        ELSE IF c \in {"\n", "\r", "\t"} THEN ParseFail
        ELSE IF c # "\\" THEN ParseStr(s, i + 1, Append(acc, c))
        ELSE IF i + 1 > Len(s) THEN ParseFail
        ELSE LET e == s[i + 1] IN
            IF e \in {"\"", "\\", "/"} THEN ParseStr(s, i + 2, Append(acc, e))
            ELSE IF e = "n" THEN ParseStr(s, i + 2, Append(acc, "\n"))
            ELSE IF e = "r" THEN ParseStr(s, i + 2, Append(acc, "\r"))
            ELSE IF e = "t" THEN ParseStr(s, i + 2, Append(acc, "\t"))
            ELSE IF e = "u" /\ Matches(s, i + 2, <<"0", "0", "b", "2">>)
                THEN ParseStr(s, i + 6, Append(acc, "U+00B2"))
            ELSE ParseFail

RECURSIVE ParseValue(_, _), ParseArr(_, _, _), ParseObj(_, _, _)
ParseValue(s, i) ==
    IF i > Len(s) THEN ParseFail
    ELSE LET c == s[i] IN
        CASE c = "\"" -> ParseStr(s, i + 1, <<>>)
          [] c = "{" ->
                LET j == SkipWs(s, i + 1) IN
                IF j <= Len(s) /\ s[j] = "}" THEN Parsed(VDict(<<>>, <<>>), j + 1)
                ELSE ParseObj(s, j, VDict(<<>>, <<>>))
          [] c = "[" ->
                LET j == SkipWs(s, i + 1) IN
                IF j <= Len(s) /\ s[j] = "]" THEN Parsed(VList(<<>>), j + 1)
                ELSE ParseArr(s, j, <<>>)
          [] c = "t" /\ Matches(s, i, <<"t","r","u","e">>) -> Parsed(VBool(TRUE), i + 4)
          [] c = "f" /\ Matches(s, i, <<"f","a","l","s","e">>) -> Parsed(VBool(FALSE), i + 5)
          [] c = "n" /\ Matches(s, i, <<"n","u","l","l">>) -> Parsed(VNone, i + 4)
          [] OTHER -> ParseFail

\* the elements of an array from position i on, acc being those read so far
ParseArr(s, i, acc) ==
    LET r == ParseValue(s, i) IN
    IF ~r.ok THEN ParseFail
    ELSE LET j == SkipWs(s, r.i) IN
        IF j > Len(s) THEN ParseFail
        ELSE IF s[j] = "]" THEN Parsed(VList(Append(acc, r.v)), j + 1)
        ELSE IF s[j] = "," THEN ParseArr(s, SkipWs(s, j + 1), Append(acc, r.v))
        ELSE ParseFail

\* the pairs of an object from position i on, d being the dict built so far
ParseObj(s, i, d) ==
    IF i > Len(s) \/ s[i] # "\"" THEN ParseFail
    ELSE LET k == ParseStr(s, i + 1, <<>>) IN
        IF ~k.ok THEN ParseFail
        ELSE LET c == SkipWs(s, k.i) IN
            IF c > Len(s) \/ s[c] # ":" THEN ParseFail
            ELSE LET r == ParseValue(s, SkipWs(s, c + 1)) IN
                IF ~r.ok THEN ParseFail
                ELSE LET j == SkipWs(s, r.i)
                         d2 == DictSet(d, k.v.s, r.v) IN
                    IF j > Len(s) THEN ParseFail
                    ELSE IF s[j] = "}" THEN Parsed(d2, j + 1)
                    ELSE IF s[j] = "," THEN ParseObj(s, SkipWs(s, j + 1), d2)
                    ELSE ParseFail

\* json.loads(s): [ok, v]; anything but whitespace after the value is an error
json_loads(s) ==
    LET r == ParseValue(s, SkipWs(s, 1)) IN
    IF r.ok /\ SkipWs(s, r.i) = Len(s) + 1 THEN [ok |-> TRUE, v |-> r.v]
    ELSE [ok |-> FALSE, v |-> VNone]

-----------------------------------------------------------------------------
(* The words of the program text and of the input lines                    *)

w_help == <<"h","e","l","p">>
w_time == <<"t","i","m","e">>
w_say == <<"s","a","y">>
w_note == <<"n","o","t","e">>
w_todo == <<"t","o","d","o">>
w_history == <<"h","i","s","t","o","r","y">>
w_clear == <<"c","l","e","a","r">>
w_exit == <<"e","x","i","t">>
w_date == <<"d","a","t","e">>
w_addnote == <<"a","d","d","n","o","t","e">>
w_n == <<"n">>
w_t == <<"t">>
w_task == <<"t","a","s","k">>
w_quit == <<"q","u","i","t">>
w_q == <<"q">>
w_remember == <<"r","e","m","e","m","b","e","r">>
w_jot == <<"j","o","t">>
w_remind == <<"r","e","m","i","n","d">>
w_clock == <<"c","l","o","c","k">>
w_repeat == <<"r","e","p","e","a","t">>
w_echo == <<"e","c","h","o">>
w_please == <<"p","l","e","a","s","e">>
w_me == <<"m","e">>
w_a == <<"a">>
w_the == <<"t","h","e">>
w_list == <<"l","i","s","t">>
w_add == <<"a","d","d">>
w_done == <<"d","o","n","e">>
w_notes == <<"n","o","t","e","s">>
w_todos == <<"t","o","d","o","s">>
w_created == <<"c","r","e","a","t","e","d">>
w_when == <<"w","h","e","n">>
w_text == <<"t","e","x","t">>
w_buy == <<"b","u","y">>
w_milk == <<"m","i","l","k">>
w_call == <<"c","a","l","l">>
w_mom == <<"m","o","m">>
w_fix == <<"f","i","x">>
w_bug == <<"b","u","g">>
w_it == <<"i","t">>
w_foo == <<"f","o","o">>
w_x == <<"x">>
w_bogus == <<"b","o","g","u","s">>
w_qmark == <<"?">>
w_NOTE == <<"N","O","T","E">>
w_0 == <<"0">>
w_1 == <<"1">>
w_3 == <<"3">>
w_sup2 == <<"U+00B2">>

\* Python's None where a command name is expected; no token equals it
None == <<"<None>">>

-----------------------------------------------------------------------------
(* Persistence: load_state, save_state                                     *)

\* the state file does not exist
Missing == [exists |-> FALSE]
\* the state file exists and holds text
FileOf(text) == [exists |-> TRUE, text |-> text]

\* datetime.now().isoformat() at the n-th reading of the clock
IsoFormat(n) == <<"T">> \o PyStr(n)

\* the dict literal of load_state's last line
DefaultState(ts) ==
    VDict(<<w_notes, w_todos, w_created>>, <<VList(<<>>), VList(<<>>), VStr(ts)>>)

\* a defect: load_state without its try / except
load_state_nocatch(f, clk) ==
    IF f.exists
    THEN [v |-> json_loads(f.text).v, clock |-> clk, raised |-> ~json_loads(f.text).ok]
    ELSE [v |-> DefaultState(IsoFormat(clk + 1)), clock |-> clk + 1, raised |-> FALSE]

\* load_state(): [v |-> the state returned, clock |-> the clock afterwards,
\* raised |-> whether an exception reached the caller]
load_state(f, clk) ==
    IF f.exists /\ json_loads(f.text).ok
    THEN [v |-> json_loads(f.text).v, clock |-> clk, raised |-> FALSE]
    ELSE [v |-> DefaultState(IsoFormat(clk + 1)), clock |-> clk + 1, raised |-> FALSE]

\* What a call of Path.write_text can do: write the text; raise OSError on
\* opening the file (the file is as it was); raise OSError after the file was
\* opened for writing (the file is left empty).
SaveOutcomes == {"written", "open_fails", "write_fails"}

\* save_state(state): [file |-> the file afterwards, raised |-> the exception]
save_state(state, f, outcome) ==
    CASE outcome = "written" -> [file |-> FileOf(json_dumps(state)), raised |-> ""]
      [] outcome = "open_fails" -> [file |-> f, raised |-> "OSError"]
      [] outcome = "write_fails" -> [file |-> FileOf(<<>>), raised |-> "OSError"]

-----------------------------------------------------------------------------
(* Command registry: command, resolve                                      *)

\* the decorated definitions of the module, in the order they are executed
Registrations == <<
    [name |-> w_help, aliases |-> <<w_qmark>>, fn |-> "_help",
     help |-> "help [command] - show help (for all commands or a specific one)"],
    [name |-> w_time, aliases |-> <<w_date>>, fn |-> "_time",
     help |-> "time - show current date/time"],
    [name |-> w_say, aliases |-> <<>>, fn |-> "_say",
     help |-> "say <text> - repeat back your text"],
    [name |-> w_note, aliases |-> <<w_addnote, w_n>>, fn |-> "_note",
     help |-> "note <text> - save a quick note"],
    [name |-> w_todo, aliases |-> <<w_t, w_task>>, fn |-> "_todo",
     help |-> "todo add <text>     - add a todo"],
    [name |-> w_history, aliases |-> <<>>, fn |-> "_history",
     help |-> "history - show recent commands"],
    [name |-> w_clear, aliases |-> <<>>, fn |-> "_clear",
     help |-> "clear - clear the screen"],
    [name |-> w_exit, aliases |-> <<w_quit, w_q>>, fn |-> "_exit",
     help |-> "exit - leave the assistant"] >>

\* f with f[k] = v, as a dict assignment
Put(f, k, v) == [x \in DOMAIN f \cup {k} |-> IF x = k THEN v ELSE f[x]]

\* ALIASES after `for a in aliases: ALIASES[a] = name`
RECURSIVE PutAliases(_, _, _)
PutAliases(A, aliases, name) ==
    IF aliases = <<>> THEN A
    ELSE PutAliases(Put(A, Head(aliases), name), Tail(aliases), name)

\* command(name, aliases=..., help=...)(func): the two tables afterwards
command(C, A, r) ==
    [C |-> Put(C, r.name, [fn |-> r.fn, help |-> r.help]),
     A |-> PutAliases(A, r.aliases, r.name)]

\* the tables after the first n decorated definitions
RECURSIVE Registered(_)
Registered(n) ==
    IF n = 0 THEN [C |-> <<>>, A |-> <<>>]
    ELSE LET prev == Registered(n - 1) IN command(prev.C, prev.A, Registrations[n])

\* a defect: resolve matching without regard to letter case
resolve_nocase(tok) ==
    IF Lower(tok) \in DOMAIN COMMANDS THEN Lower(tok)
    ELSE IF Lower(tok) \in DOMAIN ALIASES THEN ALIASES[Lower(tok)]
    ELSE None

\* resolve(cmd)
resolve(tok) ==
    IF tok \in DOMAIN COMMANDS THEN tok
    ELSE IF tok \in DOMAIN ALIASES THEN ALIASES[tok]
    ELSE None

-----------------------------------------------------------------------------
(* Intent fallback: INTENT_MAP, guess_intent                               *)

\* a defect: a rule that names a command no decorator registers
INTENT_MAP_unregistered == <<
    [keys |-> {w_note, w_remember, w_jot}, cmd |-> w_note],
    [keys |-> {w_task, w_todo, w_remind}, cmd |-> w_todo],
    [keys |-> {w_time, w_date, w_clock}, cmd |-> w_time],
    [keys |-> {w_repeat, w_say, w_echo}, cmd |-> w_echo],
    [keys |-> {w_help}, cmd |-> w_help] >>

INTENT_MAP == <<
    [keys |-> {w_note, w_remember, w_jot}, cmd |-> w_note],
    [keys |-> {w_task, w_todo, w_remind}, cmd |-> w_todo],
    [keys |-> {w_time, w_date, w_clock}, cmd |-> w_time],
    [keys |-> {w_repeat, w_say, w_echo}, cmd |-> w_say],
    [keys |-> {w_help}, cmd |-> w_help] >>

\* the loop of guess_intent from rule i on
RECURSIVE FirstRule(_, _)
FirstRule(words, i) ==
    IF i > Len(INTENT_MAP) THEN None
    ELSE IF INTENT_MAP[i].keys \cap words # {} THEN INTENT_MAP[i].cmd
    ELSE FirstRule(words, i + 1)

\* a defect: guess_intent without w.lower()
guess_intent_nolower(tokens) ==
    FirstRule({tokens[i] : i \in 1..Len(tokens)}, 1)

\* guess_intent(tokens)
guess_intent(tokens) ==
    FirstRule({Lower(tokens[i]) : i \in 1..Len(tokens)}, 1)

-----------------------------------------------------------------------------
(* Built-in commands.  A handler is an operator of its argument list (and, *)
(* where it saves, of what write_text does); it reads the globals and      *)
(* returns what it leaves: the globals, the lines printed, the exception   *)
(* that left it ("" if none), whether it called sys.exit(0), and whether   *)
(* it changed STATE.                                                       *)

\* one printed message: its fixed text and the values formatted into it
Msg(m, a) == [msg |-> m, a |-> a]

\* a handler that returns having printed o
Prints(o) ==
    [State |-> State, file |-> file, clock |-> clock, out |-> o,
     raised |-> "", exit |-> FALSE, mutated |-> FALSE]

\* a handler left by exception e after printing o
Raises(e, o) == [Prints(o) EXCEPT !.raised = e]

\* the exception of STATE[k] when it fails
GetError(v) == IF IsDict(v) THEN "KeyError" ELSE "TypeError"

\* bool(v)
Truthy(v) ==
    CASE v.t = "str" -> v.s # <<>>
      [] v.t = "bool" -> v.b
      [] v.t = "None" -> FALSE
      [] v.t = "list" -> v.items # <<>>
      [] v.t = "dict" -> v.keys # <<>>

\* len(v) succeeds
HasLen(v) == v.t \in {"str", "list", "dict"}

\* len(v)
PyLen(v) ==
    CASE v.t = "str" -> Len(v.s)
      [] v.t = "list" -> Len(v.items)
      [] v.t = "dict" -> Len(v.keys)

\* a handler that changed STATE to st, then called save_state and printed m
Saved(st, clk, outcome, m) ==
    LET s == save_state(st, file, outcome) IN
    [State |-> st, file |-> s.file, clock |-> clk,
     out |-> IF s.raised = "" THEN <<Msg(m, <<>>)>> ELSE <<>>,
     raised |-> s.raised, exit |-> FALSE, mutated |-> TRUE]

_help(a) ==
    IF a # <<>> THEN
        IF resolve(a[1]) = None THEN Prints(<<Msg("No such command: ", <<a[1]>>)>>)
        ELSE Prints(<<Msg("box", <<resolve(a[1]), COMMANDS[resolve(a[1])].help>>)>>)
    ELSE Prints(<<Msg("box", <<"Commands:">>), Msg("overview", <<DOMAIN COMMANDS>>)>>)

_time(a) == [Prints(<<Msg("time", <<IsoFormat(clock + 1)>>)>>) EXCEPT !.clock = clock + 1]

_say(a) ==
    IF a = <<>> THEN Prints(<<Msg("Usage: say <text>", <<>>)>>)
    ELSE Prints(<<Msg("say", <<Join(a)>>)>>)

\* the loop of `note list` from the i-th note on: [out, raised]
RECURSIVE NoteLines(_, _)
NoteLines(items, i) ==
    IF i > Len(items) THEN [out |-> <<>>, raised |-> ""]
    ELSE LET n == items[i] IN
        IF ~IsDict(n) THEN [out |-> <<>>, raised |-> "TypeError"]
        ELSE IF ~HasKey(n, w_when) \/ ~HasKey(n, w_text)
            THEN [out |-> <<>>, raised |-> "KeyError"]
        ELSE LET rest == NoteLines(items, i + 1) IN
            [out |-> <<Msg("note line", <<i, Get(n, w_when), Get(n, w_text)>>)>> \o rest.out,
             raised |-> rest.raised]

\* a defect: the text is the first token only
NewNoteMut(a, ts) == VDict(<<w_when, w_text>>, <<VStr(ts), VStr(a[1])>>)
\* {"when": now().isoformat(timespec="seconds"), "text": " ".join(args)}
NewNote(a, ts) == VDict(<<w_when, w_text>>, <<VStr(ts), VStr(Join(a))>>)

_note(a, outcome) ==
    IF a = <<>> THEN Prints(<<Msg("Usage: note <text> | note list", <<>>)>>)
    ELSE IF a[1] = w_list THEN
        IF ~CanGet(State, w_notes) THEN Raises(GetError(State), <<>>)
        ELSE LET x == Get(State, w_notes) IN
            IF ~Truthy(x) THEN Prints(<<Msg("(no notes)", <<>>)>>)
            ELSE IF ~IsList(x) THEN Raises("TypeError", <<>>)
            ELSE LET r == NoteLines(x.items, 1) IN Raises(r.raised, r.out)
    ELSE
        IF ~CanGet(State, w_notes) THEN Raises(GetError(State), <<>>)
        ELSE LET x == Get(State, w_notes) IN
            IF ~IsList(x) THEN Raises("AttributeError", <<>>)
            ELSE LET n == NewNote(a, IsoFormat(clock + 1))
                 IN Saved(DictSet(State, w_notes, VList(Append(x.items, n))),
                          clock + 1, outcome, "Saved note.")

\* the loop of `todo list` from the i-th todo on: [out, raised]
RECURSIVE TodoLines(_, _)
TodoLines(items, i) ==
    IF i > Len(items) THEN [out |-> <<>>, raised |-> ""]
    ELSE LET td == items[i] IN
        IF ~IsDict(td) THEN [out |-> <<>>, raised |-> "TypeError"]
        ELSE IF ~HasKey(td, w_done) \/ ~HasKey(td, w_text)
            THEN [out |-> <<>>, raised |-> "KeyError"]
        ELSE LET rest == TodoLines(items, i + 1)
                 box == IF Truthy(Get(td, w_done)) THEN "[x]" ELSE "[ ]" IN
            [out |-> <<Msg("todo line", <<i, box, Get(td, w_text)>>)>> \o rest.out,
             raised |-> rest.raised]

\* a defect: the description not stripped
TodoTextUnstripped(a) == Join(Tail(a))
\* text = " ".join(args[1:]).strip()
TodoText(a) == Strip(Join(Tail(a)))

\* a defect: done toggled instead of set
MarkDoneToggle(td) == DictSet(td, w_done, VBool(~(HasKey(td, w_done) /\ Truthy(Get(td, w_done)))))
\* STATE["todos"][idx]["done"] = True
MarkDone(td) == DictSet(td, w_done, VBool(TRUE))

\* a defect: the displayed number used as the slot
TodoIndexMut(a) == PyInt(a[2])
\* idx = int(args[1]) - 1
TodoIndex(a) == PyInt(a[2]) - 1

_todo(a, outcome) ==
    IF a = <<>> \/ a[1] \notin {w_add, w_list, w_done}
    THEN Prints(<<Msg("Usage: todo add <text> / todo list / todo done <number>", <<>>)>>)
    ELSE IF a[1] = w_add THEN
        LET text == TodoText(a) IN
        IF text = <<>> THEN Prints(<<Msg("Provide a task description.", <<>>)>>)
        ELSE IF ~CanGet(State, w_todos) THEN Raises(GetError(State), <<>>)
        ELSE LET x == Get(State, w_todos) IN
            IF ~IsList(x) THEN Raises("AttributeError", <<>>)
            ELSE LET td == VDict(<<w_text, w_done, w_created>>,
                                 <<VStr(text), VBool(FALSE), VStr(IsoFormat(clock + 1))>>)
                 IN Saved(DictSet(State, w_todos, VList(Append(x.items, td))),
                          clock + 1, outcome, "Added.")
    ELSE IF a[1] = w_list THEN
        IF ~CanGet(State, w_todos) THEN Raises(GetError(State), <<>>)
        ELSE LET x == Get(State, w_todos) IN
            IF ~Truthy(x) THEN Prints(<<Msg("(no todos)", <<>>)>>)
            ELSE IF ~IsList(x) THEN Raises("TypeError", <<>>)
            ELSE LET r == TodoLines(x.items, 1) IN Raises(r.raised, r.out)
    ELSE
        IF Len(a) < 2 \/ ~IsDigit(a[2])
        THEN Prints(<<Msg("Provide the todo number to mark done.", <<>>)>>)
        ELSE IF ~IntOk(a[2]) THEN Raises("ValueError", <<>>)
        ELSE LET idx == TodoIndex(a) IN
            IF idx < 0 THEN Prints(<<Msg("Invalid number.", <<>>)>>)
            ELSE IF ~CanGet(State, w_todos) THEN Raises(GetError(State), <<>>)
            ELSE LET x == Get(State, w_todos) IN
                IF ~HasLen(x) THEN Raises("TypeError", <<>>)
                ELSE IF idx >= PyLen(x) THEN Prints(<<Msg("Invalid number.", <<>>)>>)
                ELSE IF x.t = "dict" THEN Raises("KeyError", <<>>)
                ELSE IF x.t = "str" \/ ~IsDict(x.items[idx + 1]) THEN Raises("TypeError", <<>>)
                ELSE LET td == MarkDone(x.items[idx + 1]) IN
                    Saved(DictSet(State, w_todos,
                                  VList([x.items EXCEPT ![idx + 1] = td])),
                          clock, outcome, "Marked done.")

\* the number of lines `history` shows
HistoryShown == 50

\* HISTORY[-50:]
Recent(h) == IF Len(h) <= HistoryShown THEN h ELSE SubSeq(h, Len(h) - HistoryShown + 1, Len(h))

_history(a) ==
    Prints([i \in 1..Len(Recent(HISTORY)) |-> Msg("history line", <<i, Recent(HISTORY)[i]>>)])

\* os.system("clear"): nothing of the program changes
_clear(a) == Prints(<<>>)

_exit(a) == [Prints(<<Msg("Bye!", <<>>)>>) EXCEPT !.exit = TRUE]

\* COMMANDS[cmd]["fn"](args)
Call(fn, a, outcome) ==
    CASE fn = "_help" -> _help(a)
      [] fn = "_time" -> _time(a)
      [] fn = "_say" -> _say(a)
      [] fn = "_note" -> _note(a, outcome)
      [] fn = "_todo" -> _todo(a, outcome)
      [] fn = "_history" -> _history(a)
      [] fn = "_clear" -> _clear(a)
      [] fn = "_exit" -> _exit(a)

-----------------------------------------------------------------------------
(* The inputs of the model: the state file found at start, the lines typed *)

\* STATE as an earlier run left it: one note, two todos
SampleState ==
    VDict(<<w_notes, w_todos, w_created>>,
          <<VList(<<VDict(<<w_when, w_text>>,
                          <<VStr(IsoFormat(0)), VStr(<<"a", "\"", "b", "\\", "c">>)>>)>>),
            VList(<<VDict(<<w_text, w_done, w_created>>,
                          <<VStr(w_call \o <<" ">> \o w_mom), VBool(FALSE), VStr(IsoFormat(0))>>),
                    VDict(<<w_text, w_done, w_created>>,
                          <<VStr(w_buy), VBool(FALSE), VStr(IsoFormat(0))>>)>>),
            VStr(IsoFormat(0))>>)

\* a file cut short: not JSON
F_truncated == FileOf(<<"{", "\"", "n", "o">>)
\* a JSON document without notes and todos
F_empty_object == FileOf(<<"{", "}">>)
\* a JSON document without todos
F_notes_only == FileOf(<<"{", "\"">> \o w_notes \o <<"\"", ":", " ", "[", "]", "}">>)
\* the file an earlier run saved
F_sample == FileOf(json_dumps(SampleState))

InitialFiles == {Missing, F_truncated, F_empty_object, F_notes_only, F_sample}

L_note_buy_milk == Join(<<w_note, w_buy, w_milk>>)
L_n_list_it == Join(<<w_n, w_list, w_it>>)
L_please_remember == Join(<<w_please, w_remember, w_call, w_mom>>)
L_todo_add_fix_bug == Join(<<w_todo, w_add, w_fix, w_bug>>)
L_t_done_1 == Join(<<w_t, w_done, w_1>>)
L_todo_done_0 == Join(<<w_todo, w_done, w_0>>)
L_todo_done_3 == Join(<<w_todo, w_done, w_3>>)
L_todo_done_x == Join(<<w_todo, w_done, w_x>>)
L_todo_done_sup2 == Join(<<w_todo, w_done, w_sup2>>)
L_todo_done == Join(<<w_todo, w_done>>)
L_q == <<" ">> \o w_q \o <<" ">>
L_foo == w_foo
L_unclosed == w_note \o <<" ", "\"", "a">>
L_NOTE_task_it == Join(<<w_NOTE, w_task, w_it>>)
L_empty == <<>>
L_blank == <<" ", " ">>

\* the lines of the second specification: one per command and sub-command
L_jot_the == Join(<<w_jot, w_the>>)
L_say_the_task == Join(<<w_say, w_the, w_task>>)
L_note_list == Join(<<w_note, w_list>>)
L_note == w_note
L_todo_add_blank == Join(<<w_todo, w_add>>) \o <<" ", "\"", " ", "\"">>
L_todo_list == Join(<<w_todo, w_list>>)
L_todo_bogus == Join(<<w_todo, w_bogus>>)
L_help == w_help
L_time == w_time
L_history == w_history
L_clear == w_clear

FrameLines ==
    {L_jot_the, L_say_the_task, L_note_list, L_note, L_todo_add_blank, L_todo_list,
     L_todo_bogus, L_help, L_time, L_history, L_clear, L_foo, L_note_buy_milk,
     L_todo_add_fix_bug, L_t_done_1, L_blank}

InputLines ==
    {L_note_buy_milk, L_n_list_it, L_please_remember, L_todo_add_fix_bug,
     L_t_done_1, L_todo_done_0, L_todo_done_3, L_todo_done_x, L_todo_done_sup2,
     L_todo_done, L_q, L_foo, L_unclosed, L_NOTE_task_it, L_empty, L_blank}

-----------------------------------------------------------------------------
(* The process: module import (load_state, the decorators), then main      *)

PCs == {"start", "loaded", "READING", "RESOLVING", "EXECUTING", "EXIT", "CRASHED"}

Init ==
    /\ file \in InitialFiles
    /\ State = VNone
    /\ COMMANDS = <<>>
    /\ ALIASES = <<>>
    /\ HISTORY = <<>>
    /\ clock = 0
    /\ pc = "start"
    /\ line = <<>>
    /\ parts = <<>>
    /\ cmd = None
    /\ args = <<>>
    /\ how = "none"
    /\ out = <<>>
    /\ err = ""
    /\ status = -1
    /\ mutated = FALSE

\* STATE = load_state()
LoadState ==
    /\ pc = "start"
    /\ LET r == load_state(file, clock) IN
        /\ State' = r.v
        /\ clock' = r.clock
        /\ pc' = IF r.raised THEN "CRASHED" ELSE "loaded"
        /\ status' = IF r.raised THEN 1 ELSE status
    /\ UNCHANGED <<file, COMMANDS, ALIASES, HISTORY, line, parts, cmd, args, how, out, err, mutated>>

\* the decorated definitions run, then main() prints the banner
RegisterCommands ==
    /\ pc = "loaded"
    /\ COMMANDS' = Registered(Len(Registrations)).C
    /\ ALIASES' = Registered(Len(Registrations)).A
    /\ out' = <<Msg("BANNER", <<>>)>>
    /\ pc' = "READING"
    /\ UNCHANGED <<file, State, HISTORY, clock, line, parts, cmd, args, how, err, status, mutated>>

\* a defect: the line recorded before it is tested for being empty
RecordedAlways(h, ln) == Append(h, ln)
\* HISTORY after `if not line: continue` / `HISTORY.append(line)`
Recorded(h, ln) == IF ln = <<>> THEN h ELSE Append(h, ln)

\* input() returns l: strip, record, tokenize
ReadLine(l) ==
    /\ pc = "READING"
    /\ line' = Strip(l)
    /\ HISTORY' = Recorded(HISTORY, line')
    /\ IF line' = <<>> THEN
            /\ out' = <<>>
            /\ UNCHANGED <<parts, pc>>
       ELSE
            /\ Len(HISTORY) < MaxHistory
            /\ LET sp == shlex_split(line') IN
                IF sp.ok THEN
                    /\ parts' = sp.toks
                    /\ out' = <<>>
                    /\ pc' = "RESOLVING"
                ELSE
                    /\ out' = <<Msg("Parse error: ", <<"ValueError">>)>>
                    /\ UNCHANGED <<parts, pc>>
    /\ UNCHANGED <<file, State, COMMANDS, ALIASES, clock, cmd, args, how, err, status, mutated>>

\* the status of sys.exit(0)
ExitStatus == 0

\* a defect: end of input leaves the loop without _exit
ReadEndNoExit ==
    /\ pc = "READING"
    /\ out' = <<Msg("", <<>>)>>
    /\ pc' = "EXIT"
    /\ status' = 1
    /\ UNCHANGED <<file, State, COMMANDS, ALIASES, HISTORY, clock, line, parts, cmd, args,
                   how, err, mutated>>

\* input() raises EOFError or KeyboardInterrupt: print(), _exit([])
ReadEnd ==
    /\ pc = "READING"
    /\ LET r == _exit(<<>>) IN
        /\ out' = <<Msg("", <<>>)>> \o r.out
        /\ pc' = IF r.exit THEN "EXIT" ELSE "READING"
        /\ status' = IF r.exit THEN ExitStatus ELSE status
        /\ State' = r.State
        /\ file' = r.file
        /\ clock' = r.clock
    /\ UNCHANGED <<COMMANDS, ALIASES, HISTORY, line, parts, cmd, args, how, err, mutated>>

StopWords == {w_please, w_me, w_a, w_the}

\* [a for a in args if a.lower() not in ("please","me","a","the")]
RECURSIVE Filtered(_)
Filtered(a) ==
    IF a = <<>> THEN <<>>
    ELSE IF Lower(Head(a)) \in StopWords THEN Filtered(Tail(a))
    ELSE <<Head(a)>> \o Filtered(Tail(a))

\* a defect: the fallback taking the whole line for every guessed note
FallbackArgsWholeLine(guess, ps) ==
    IF guess = w_note THEN <<Join(ps)>> ELSE Filtered(Tail(ps))

\* the arguments main passes on an intent-fallback hit
FallbackArgs(guess, ps) ==
    IF guess = w_note /\ Filtered(Tail(ps)) = <<>> THEN <<Join(ps)>> ELSE Filtered(Tail(ps))

\* a defect: the stop-word filter applied to a directly resolved command too
DirectArgsFiltered(ps) == Filtered(Tail(ps))
\* cmd_token, *args = parts: the arguments of a directly resolved command
DirectArgs(ps) == Tail(ps)

\* a defect: an unknown command is resolved again instead of being dropped
UnknownPcStuck == "RESOLVING"
\* `continue` after "Unknown command": back to the prompt
UnknownPc == "READING"

\* cmd = resolve(cmd_token), else the intent guess, else "Unknown command"
Resolve ==
    /\ pc = "RESOLVING"
    /\ LET direct == resolve(Head(parts))
           guess == guess_intent(parts) IN
        IF direct # None THEN
            /\ cmd' = direct
            /\ args' = DirectArgs(parts)
            /\ how' = "direct"
            /\ pc' = "EXECUTING"
            /\ out' = out
        ELSE IF guess # None THEN
            /\ cmd' = guess
            /\ args' = FallbackArgs(guess, parts)
            /\ how' = "fallback"
            /\ pc' = "EXECUTING"
            /\ out' = out
        ELSE
            /\ cmd' = None
            /\ args' = Tail(parts)
            /\ how' = "none"
            /\ out' = <<Msg("Unknown command: ", <<Head(parts)>>)>>
            /\ pc' = UnknownPc
    /\ UNCHANGED <<file, State, COMMANDS, ALIASES, HISTORY, clock, line, parts, err, status, mutated>>

\* a defect: a handler's exception leaves the loop too
NextPcMut(r) == IF r.exit \/ r.raised # "" THEN "EXIT" ELSE "READING"
\* where main goes after the call returned r: sys.exit leaves the loop (except
\* SystemExit: raise), anything else goes back to the prompt
NextPc(r) == IF r.exit THEN "EXIT" ELSE "READING"

\* a defect: the report names the word typed, not the command resolved
ErrorReportMut(c, e) == Msg("Error running ", <<Head(parts), e>>)
\* print(f"Error running '{cmd}': {e}")
ErrorReport(c, e) == Msg("Error running ", <<c, e>>)

\* COMMANDS[cmd]["fn"](args) inside try / except SystemExit / except Exception;
\* the lookup COMMANDS[cmd]["fn"] itself is evaluated before the call
Execute(outcome) ==
    /\ pc = "EXECUTING"
    /\ IF cmd \notin DOMAIN COMMANDS THEN
            /\ pc' = "CRASHED"
            /\ status' = 1
            /\ out' = Append(out, Msg("Traceback", <<"KeyError">>))
            /\ UNCHANGED <<file, State, clock, err, mutated>>
       ELSE \E r \in {Call(COMMANDS[cmd].fn, args, outcome)} :
            /\ State' = r.State
            /\ file' = r.file
            /\ clock' = r.clock
            /\ mutated' = (mutated \/ r.mutated)
            /\ pc' = NextPc(r)
            /\ status' = IF NextPc(r) = "EXIT" THEN ExitStatus ELSE status
            /\ err' = IF r.exit THEN "" ELSE r.raised
            /\ out' = IF ~r.exit /\ r.raised # ""
                      THEN out \o r.out \o <<ErrorReport(cmd, r.raised)>>
                      ELSE out \o r.out
    /\ UNCHANGED <<COMMANDS, ALIASES, HISTORY, line, parts, cmd, args, how>>

Next ==
    \/ LoadState
    \/ RegisterCommands
    \/ \E l \in InputLines : ReadLine(l)
    \/ ReadEnd
    \/ Resolve
    \/ \E outcome \in SaveOutcomes : Execute(outcome)

Spec == Init /\ [][Next]_vars

\* the same process fed the lines of FrameLines
NextFrame ==
    \/ LoadState
    \/ RegisterCommands
    \/ \E l \in FrameLines : ReadLine(l)
    \/ ReadEnd
    \/ Resolve
    \/ \E outcome \in SaveOutcomes : Execute(outcome)

SpecFrame == Init /\ [][NextFrame]_vars

\* one line of each fate: stored, guessed, failing in its handler, unknown,
\* malformed, exit, empty
LiveLines ==
    {L_note_buy_milk, L_please_remember, L_todo_done_sup2, L_foo, L_unclosed, L_q, L_empty}

NextLive ==
    \/ LoadState
    \/ RegisterCommands
    \/ \E l \in LiveLines : ReadLine(l)
    \/ ReadEnd
    \/ Resolve
    \/ \E outcome \in SaveOutcomes : Execute(outcome)

\* main is one thread that runs on until it blocks in input(): once a line is
\* read, resolving it and calling its handler are not put off forever
FairSpec ==
    /\ Init /\ [][NextLive]_vars
    /\ WF_vars(Resolve)
    /\ WF_vars(\E outcome \in SaveOutcomes : Execute(outcome))

TypeOK ==
    /\ pc \in PCs
    /\ how \in {"none", "direct", "fallback"}
    /\ status \in {-1, 0, 1}
    /\ mutated \in BOOLEAN
    /\ Len(HISTORY) <= MaxHistory
    /\ line = <<>> \/ (HISTORY # <<>> /\ line = HISTORY[Len(HISTORY)])

-----------------------------------------------------------------------------
(* Vocabulary of the properties                                            *)

\* v holds a list under key k
HasList(v, k) == CanGet(v, k) /\ IsList(Get(v, k))

\* the notes and the todos of a state that holds them
NotesOf(v) == Get(v, w_notes).items
TodosOf(v) == Get(v, w_todos).items

\* every note is a {when, text} dict, every todo a {text, done, created} dict
NotesWellFormed(v) ==
    /\ HasList(v, w_notes)
    /\ \A i \in 1..Len(NotesOf(v)) :
        IsDict(NotesOf(v)[i]) /\ HasKey(NotesOf(v)[i], w_when) /\ HasKey(NotesOf(v)[i], w_text)
TodosWellFormed(v) ==
    /\ HasList(v, w_todos)
    /\ \A i \in 1..Len(TodosOf(v)) :
        /\ IsDict(TodosOf(v)[i])
        /\ HasKey(TodosOf(v)[i], w_text)
        /\ HasKey(TodosOf(v)[i], w_done)
        /\ HasKey(TodosOf(v)[i], w_created)

\* v is a PersistedState document
IsPersistedState(v) ==
    NotesWellFormed(v) /\ TodosWellFormed(v) /\ CanGet(v, w_created) /\ Get(v, w_created).t = "str"

Last(s) == s[Len(s)]

\* the text of the last note
LastNoteText(v) == Get(Last(NotesOf(v)), w_text)

\* s2 is s with one element appended
Extends(s, s2) == Len(s2) = Len(s) + 1 /\ SubSeq(s2, 1, Len(s)) = s

\* the call about to run is `note T`, resolved directly, T one or more tokens,
\* against a state that holds a notes list
NoteCommandRuns ==
    /\ pc = "EXECUTING" /\ how = "direct" /\ cmd = w_note
    /\ Head(parts) \in {w_note, w_addnote, w_n}
    /\ Len(parts) >= 2
    /\ NotesWellFormed(State)

\* the step appended one note with the text of the line's tokens after the first
NoteAppended ==
    /\ NotesWellFormed(State')
    /\ Extends(NotesOf(State), NotesOf(State'))
    /\ LastNoteText(State') = VStr(Join(Tail(parts)))

\* the step printed the notes, one line each, numbered from 1, in list order
NotesListed ==
    /\ Len(out') = Len(NotesOf(State))
    /\ \A i \in 1..Len(NotesOf(State)) :
        /\ out'[i].msg = "note line"
        /\ out'[i].a = <<i, Get(NotesOf(State)[i], w_when), Get(NotesOf(State)[i], w_text)>>

P_please == <<w_please, w_remember, w_call, w_mom>>

\* the line `please remember call mom` has been executed against a notes list
PleaseLineDone ==
    pc = "READING" /\ parts = P_please /\ NotesWellFormed(State) /\ NotesOf(State) # <<>>

TodoDoneRuns ==
    /\ pc = "EXECUTING" /\ cmd = w_todo
    /\ args # <<>> /\ args[1] = w_done
    /\ TodosWellFormed(State)

\* the argument of `todo done` is a decimal number
IsNumber(a) == Len(a) >= 2 /\ a[2] # <<>> /\ \A i \in 1..Len(a[2]) : IsAsciiDigit(a[2][i])

\* todo k of s2 is todo k of s marked done, every other todo is as it was
MarkedDone(s, s2, k) ==
    /\ Len(s2) = Len(s)
    /\ \A i \in 1..Len(s) : i # k => s2[i] = s[i]
    /\ Get(s2[k], w_done) = VBool(TRUE)
    /\ Get(s2[k], w_text) = Get(s[k], w_text)
    /\ Get(s2[k], w_created) = Get(s[k], w_created)

(* C3: with n todos, `todo done k` for 1 <= k <= n sets done on exactly   *)
(* the todo in slot k-1 (shown as number k) and changes nothing else of    *)
(* any todo; for k = 0, k > n, a non-numeric or a missing k no todo        *)
(* changes, one message is printed and main reads the next line.           *)
C3_TodoDone ==
    [][TodoDoneRuns =>
        IF IsNumber(args) /\ PyInt(args[2]) \in 1..Len(TodosOf(State))
        THEN TodosWellFormed(State')
             /\ MarkedDone(TodosOf(State), TodosOf(State'), PyInt(args[2]))
        ELSE State' = State /\ file' = file /\ Len(out') = 1 /\ pc' = "READING"]_vars

C3_Witness ==
    /\ pc = "READING" /\ parts = <<w_t, w_done, w_1>>
    /\ TodosWellFormed(State)
    /\ Len(TodosOf(State)) >= 2
    /\ Get(TodosOf(State)[1], w_done) = VBool(TRUE)
    /\ Get(TodosOf(State)[2], w_done) = VBool(FALSE)

(* C4: whenever main waits for a line after a mutating command has run in *)
(* this process, the state file decodes to exactly the in-memory state.    *)
C4_FileMatchesMemory ==
    (pc = "READING" /\ mutated) =>
        file.exists /\ json_loads(file.text).ok /\ json_loads(file.text).v = State

\* save_state(v) to a writable file, then load_state(), gives v back
RoundTrips(v, f, clk) ==
    LET saved == save_state(v, f, "written")
        loaded == load_state(saved.file, clk) IN
    saved.raised = "" /\ ~loaded.raised /\ loaded.v = v

(* C5: for a state made of a notes list, a todos list and a created       *)
(* timestamp, save_state followed by load_state returns an equal state:    *)
(* it does for every value a step of the program gives STATE.              *)
C5_RoundTrip ==
    [][(State' # State /\ IsPersistedState(State')) => RoundTrips(State', file', clock')]_vars

C5_Witness ==
    /\ pc = "READING" /\ mutated /\ IsPersistedState(State)
    /\ file = FileOf(json_dumps(State))
    /\ load_state(file, clock).v = State
    /\ \E i \in 1..Len(NotesOf(State)) : Get(NotesOf(State)[i], w_text) = VStr(<<"a", "\"", "b", "\\", "c">>)
    /\ \E i \in 1..Len(TodosOf(State)) : Get(TodosOf(State)[i], w_done) = VBool(TRUE)
    /\ \E i \in 1..Len(TodosOf(State)) : Get(TodosOf(State)[i], w_done) = VBool(FALSE)

\* the state file is missing or its content is not JSON
Unloadable(f) == ~f.exists \/ ~json_loads(f.text).ok

(* C6: load_state never raises, never writes the file, and returns a      *)
(* fresh default state with empty notes and todos when the file is missing *)
(* or fails to parse.                                                      *)
C6_LoadDefaults ==
    [][pc = "start" =>
        /\ pc' = "loaded"
        /\ file' = file
        /\ Unloadable(file) =>
            /\ IsPersistedState(State')
            /\ NotesOf(State') = <<>>
            /\ TodosOf(State') = <<>>]_vars

C6_Witness ==
    /\ pc = "loaded" /\ file = F_truncated
    /\ IsPersistedState(State) /\ NotesOf(State) = <<>> /\ TodosOf(State) = <<>>

\* str.upper() on the letters a-z
Upper(s) ==
    [i \in 1..Len(s) |->
        IF \E j \in 1..Len(LowerChars) : LowerChars[j] = s[i]
        THEN UpperChars[CHOOSE j \in 1..Len(LowerChars) : LowerChars[j] = s[i]]
        ELSE s[i]]

\* s with its first letter in upper case
Capitalized(s) == IF s = <<>> THEN s ELSE Upper(<<Head(s)>>) \o Tail(s)

\* the names and aliases the decorators register
RegisteredNames == {Registrations[i].name : i \in 1..Len(Registrations)}
RegisteredAliases ==
    UNION {{Registrations[i].aliases[j] : j \in 1..Len(Registrations[i].aliases)} :
           i \in 1..Len(Registrations)}

\* tokens that are neither: other words, case variants, the empty token
OtherTokens ==
    ({w_foo, w_please, w_remember, w_list, w_add, <<>>, w_NOTE}
        \cup {Upper(n) : n \in RegisteredNames \cup RegisteredAliases}
        \cup {Capitalized(n) : n \in RegisteredNames \cup RegisteredAliases})
    \ (RegisteredNames \cup RegisteredAliases)

(* C7: resolve returns a registered command name unchanged, the canonical *)
(* command for a registered alias, and not-found otherwise; the match is   *)
(* exact and case-sensitive.  (Checked on the tables main resolves with,   *)
(* and on the command each line was dispatched to.)                        *)
C7_Resolve ==
    /\ pc = "RESOLVING" =>
        /\ \A i \in 1..Len(Registrations) :
            /\ resolve(Registrations[i].name) = Registrations[i].name
            /\ \A j \in 1..Len(Registrations[i].aliases) :
                resolve(Registrations[i].aliases[j]) = Registrations[i].name
        /\ \A tok \in OtherTokens : resolve(tok) = None
    /\ (pc = "EXECUTING" /\ how = "direct") =>
            \/ cmd = Head(parts) /\ cmd \in RegisteredNames
            \/ \E i \in 1..Len(Registrations) :
                  /\ cmd = Registrations[i].name
                  /\ \E j \in 1..Len(Registrations[i].aliases) :
                        Registrations[i].aliases[j] = Head(parts)
    /\ (pc = "EXECUTING" /\ how = "fallback") =>
            Head(parts) \notin RegisteredNames \cup RegisteredAliases

C7_Witness ==
    /\ pc = "EXECUTING" /\ how = "fallback" /\ Head(parts) = w_NOTE
    /\ \E i \in 1..Len(HISTORY) : HISTORY[i] = L_t_done_1
    /\ resolve(w_t) = w_todo /\ resolve(w_todo) = w_todo /\ resolve(w_NOTE) = None

\* the command of the first rule, in the fixed order, with a keyword among words
RuleOrder(words) ==
    IF words \cap {w_note, w_remember, w_jot} # {} THEN w_note
    ELSE IF words \cap {w_task, w_todo, w_remind} # {} THEN w_todo
    ELSE IF words \cap {w_time, w_date, w_clock} # {} THEN w_time
    ELSE IF words \cap {w_repeat, w_say, w_echo} # {} THEN w_say
    ELSE IF words \cap {w_help} # {} THEN w_help
    ELSE None

LowerWords(tokens) == {Lower(tokens[i]) : i \in 1..Len(tokens)}

\* token lists of one and two words: keywords of every rule, in either letter
\* case, and words that are no keyword
IntentWords ==
    {w_note, w_remember, w_jot, w_task, w_todo, w_remind, w_time, w_date, w_clock,
     w_repeat, w_say, w_echo, w_help, w_foo, w_it, w_NOTE, Upper(w_task),
     Capitalized(w_clock), Upper(w_help)}
IntentSamples ==
    {<<a>> : a \in IntentWords} \cup {<<a, b>> : a \in IntentWords, b \in IntentWords}

\* guess_intent agrees with the rule order on every sample
SamplesFollowRuleOrder ==
    \A toks \in IntentSamples : guess_intent(toks) = RuleOrder(LowerWords(toks))

(* C8: guess_intent lower-cases the tokens and returns the command of the *)
(* first rule, in the order note, todo, time, say, help, that shares a     *)
(* word with them, none if no rule does; tokens holding a note keyword and *)
(* a todo keyword give note wherever the keywords stand.                   *)
C8_GuessIntent ==
    /\ pc = "RESOLVING" => SamplesFollowRuleOrder
    /\ (pc \in {"EXECUTING", "READING"} /\ parts # <<>> /\ how # "direct") =>
            /\ cmd = RuleOrder(LowerWords(parts))
            /\ (how = "none") = (cmd = None)
            /\ (/\ LowerWords(parts) \cap {w_note, w_remember, w_jot} # {}
                /\ LowerWords(parts) \cap {w_task, w_todo, w_remind} # {}) => cmd = w_note

C8_Witness ==
    /\ pc = "EXECUTING" /\ how = "fallback" /\ cmd = w_note
    /\ parts = <<w_NOTE, w_task, w_it>>

(* C9: the process ends only from a line whose first token resolves       *)
(* directly to exit (exit, quit, q) or from end of input or an interrupt   *)
(* at the read step; no parse error, unknown command, fallback hit or      *)
(* handler failure ends it.                                                *)
C9_ExitOnlyOnRequest ==
    [][/\ pc' # "CRASHED"
       /\ (pc # "EXIT" /\ pc' = "EXIT") =>
            \/ pc = "READING" /\ HISTORY' = HISTORY /\ status' = 0
            \/ /\ pc = "EXECUTING" /\ how = "direct"
               /\ Head(parts) \in {w_exit, w_quit, w_q}
               /\ status' = 0]_vars

C9_Witness ==
    /\ pc = "EXIT" /\ status = 0 /\ how = "direct" /\ parts = <<w_q>>
    /\ HISTORY = <<L_unclosed, w_q>>

\* the messages of o that report a failed command
ErrorReports(o) == {i \in 1..Len(o) : o[i].msg = "Error running "}

(* C10: a failure raised while a resolved command's handler runs is       *)
(* caught at the dispatch boundary, reported as one message naming the     *)
(* resolved command, and main reads the next line.                         *)
C10_FailureReported ==
    [][(pc = "EXECUTING" /\ cmd \in DOMAIN COMMANDS) =>
        LET fn == COMMANDS[cmd].fn IN
        /\ pc' \in {"READING", "EXIT"}
        /\ (\A o \in SaveOutcomes : Call(fn, args, o).raised # "") => err' # ""
        /\ err' # "" =>
            /\ \E o \in SaveOutcomes : Call(fn, args, o).raised = err'
            /\ pc' = "READING"
            /\ ErrorReports(out') = {Len(out')}
            /\ Last(out').a = <<cmd, err'>>
        /\ err' = "" =>
            /\ \E o \in SaveOutcomes : Call(fn, args, o).raised = ""
            /\ ErrorReports(out') = {}]_vars

C10_Witness ==
    /\ pc = "READING" /\ err = "KeyError" /\ cmd = w_todo /\ Head(parts) = w_t
    /\ ~CanGet(State, w_todos)
    /\ Last(out).msg = "Error running "


(* C11: after startup the in-memory state holds a notes list and a todos   *)
(* list whatever the state file contained: missing, unparseable, or a JSON *)
(* document that is not a persisted state.                                 *)
C11_StateHoldsLists ==
    pc \notin {"start"} => HasList(State, w_notes) /\ HasList(State, w_todos)

\* the line resolved last fell back to note with nothing left after the filter
WholeLineNote ==
    /\ how = "fallback" /\ cmd = w_note
    /\ resolve(Head(parts)) = None
    /\ Filtered(Tail(parts)) = <<>>

(* C12: when the fallback selects note and no token after the first        *)
(* survives the stop-word filter, the handler is called with one argument, *)
(* all the tokens of the line joined by single spaces, and that string is  *)
(* stored as the text of a note.                                           *)
C12_WholeLineStored ==
    /\ (pc = "EXECUTING" /\ WholeLineNote) => args = <<Join(parts)>>
    /\ (pc = "READING" /\ WholeLineNote) =>
        /\ HasList(State, w_notes)
        /\ NotesOf(State) # <<>>
        /\ LastNoteText(State) = VStr(Join(parts))

\* todo b is todo a, or todo a marked done for the first time
TodoKept(a, b) ==
    \/ b = a
    \/ /\ IsDict(a) /\ IsDict(b) /\ a.keys = b.keys
       /\ \A k \in {w_text, w_created} : HasKey(a, k) => Get(b, k) = Get(a, k)
       /\ HasKey(a, w_done) /\ Get(a, w_done) = VBool(FALSE)
       /\ Get(b, w_done) = VBool(TRUE)

(* C13: within one process the notes and the todos only grow at the end:   *)
(* no entry is removed or moved, a note never changes, a todo keeps its    *)
(* text and created, and done only goes from false to true.                *)
C13_AppendOnly ==
    [][pc # "start" =>
        /\ HasList(State, w_notes) =>
            /\ HasList(State', w_notes)
            /\ \/ NotesOf(State') = NotesOf(State)
               \/ Extends(NotesOf(State), NotesOf(State'))
        /\ HasList(State, w_todos) =>
            /\ HasList(State', w_todos)
            /\ Len(TodosOf(State')) \in {Len(TodosOf(State)), Len(TodosOf(State)) + 1}
            /\ \A i \in 1..Len(TodosOf(State)) :
                TodoKept(TodosOf(State)[i], TodosOf(State')[i])]_vars

C13_Witness ==
    /\ pc = "READING" /\ HISTORY = <<L_t_done_1, L_t_done_1>>
    /\ out # <<>> /\ Last(out).msg = "Marked done."
    /\ HasList(State, w_todos) /\ Len(TodosOf(State)) = 2
    /\ Get(TodosOf(State)[1], w_done) = VBool(TRUE)
    /\ Get(TodosOf(State)[2], w_done) = VBool(FALSE)

\* s holds an odd number of double quotes and no other quoting character
OddQuotes(s) ==
    /\ \A i \in 1..Len(s) : s[i] \notin {"'", "\\"}
    /\ Cardinality({i \in 1..Len(s) : s[i] = "\""}) % 2 = 1

(* C14: a line whose quoting is malformed is reported as a parse error and *)
(* dropped: no command is resolved, no handler runs, the state and the     *)
(* file stay as they were, and main reads the next line.                   *)
C14_ParseErrorDiscarded ==
    [][(pc = "READING" /\ pc' # "EXIT" /\ OddQuotes(line')) =>
        /\ pc' = "READING"
        /\ Len(out') = 1 /\ out'[1].msg = "Parse error: "
        /\ UNCHANGED <<State, file, parts, cmd, args, how, clock, err, status, mutated>>]_vars

C14_Witness ==
    /\ pc = "READING" /\ line = L_unclosed
    /\ HISTORY = <<L_note_buy_milk, L_unclosed>>
    /\ Len(out) = 1 /\ out[1].msg = "Parse error: "
    /\ cmd = w_note /\ parts = <<w_note, w_buy, w_milk>>
    /\ HasList(State, w_notes) /\ NotesOf(State) # <<>>
    /\ LastNoteText(State) = VStr(Join(<<w_buy, w_milk>>))

(* C15: a line that is empty once stripped does nothing: it is not added   *)
(* to the history, nothing is tokenized, resolved or called, the state and *)
(* the file stay as they were, and main reads the next line.               *)
C15_EmptyLineNoOp ==
    [][(pc = "READING" /\ pc' # "EXIT" /\ line' = <<>>) =>
        UNCHANGED <<HISTORY, State, file, pc, parts, cmd, args, how, clock, err, status,
                    mutated>>]_vars

C15_Witness ==
    /\ pc = "READING" /\ line = <<>> /\ out = <<>>
    /\ HISTORY = <<L_note_buy_milk>>
    /\ parts = <<w_note, w_buy, w_milk>> /\ cmd = w_note

(* C16: guess_intent and the stop-word filter are used only when the first *)
(* token resolves to nothing: a directly resolved command gets exactly the *)
(* remaining tokens, in order, stop words and intent keywords included.    *)
C16_DirectArgsUnfiltered ==
    pc = "EXECUTING" =>
        /\ resolve(Head(parts)) # None =>
            /\ how = "direct"
            /\ cmd = resolve(Head(parts))
            /\ args = Tail(parts)
        /\ how = "fallback" => resolve(Head(parts)) = None

C16_Witness ==
    /\ pc = "EXECUTING" /\ how = "direct" /\ cmd = w_say
    /\ parts = <<w_say, w_the, w_task>>
    /\ args = <<w_the, w_task>>

\* a line is being handled; it asks for exit
Handling == pc \in {"RESOLVING", "EXECUTING"}
ExitRequested ==
    \/ pc = "RESOLVING" /\ resolve(Head(parts)) = w_exit
    \/ pc = "EXECUTING" /\ cmd = w_exit

(* C17: every line that is not an exit request is handled in finitely many *)
(* steps, after which main is reading again; a line that resolves to no    *)
(* command goes back to reading from its report, without a handler call.   *)
C17_LineHandled ==
    /\ (Handling /\ ~ExitRequested) ~> (pc = "READING")
    /\ [][(pc = "RESOLVING" /\ resolve(Head(parts)) = None /\ guess_intent(parts) = None) =>
            /\ pc' = "READING"
            /\ Len(out') = 1 /\ out'[1].msg = "Unknown command: "
            /\ UNCHANGED <<State, file, clock, mutated>>]_vars

C17_Witness ==
    /\ pc = "READING" /\ how = "none" /\ parts = <<w_foo>>
    /\ HISTORY = <<L_todo_done_sup2, L_foo>>
    /\ err = "ValueError"
    /\ Len(out) = 1 /\ out[1].msg = "Unknown command: "

(* C18: end of input or an interrupt at the prompt ends the process as an  *)
(* exit request does: "Bye!" is printed last, the status is 0, no other    *)
(* handler runs and neither the state nor the file changes.                *)
C18_EndOfInputExits ==
    [][(pc # "EXIT" /\ pc' = "EXIT") =>
        /\ status' = 0
        /\ out' # <<>> /\ Last(out').msg = "Bye!"
        /\ UNCHANGED <<State, file>>
        /\ pc = "READING" =>
            UNCHANGED <<HISTORY, clock, parts, cmd, args, how, err, mutated>>]_vars

C18_Witness ==
    /\ pc = "EXIT" /\ status = 0
    /\ Len(out) = 2 /\ out[1].msg = "" /\ out[2].msg = "Bye!"
    /\ HISTORY = <<L_note_buy_milk>> /\ cmd = w_note /\ how = "direct"

\* the call c(a) against st is one of the three that store something
Storing(c, a, st) ==
    \/ c = w_note /\ a # <<>> /\ a[1] # w_list
    \/ c = w_todo /\ a # <<>> /\ a[1] = w_add /\ Strip(Join(Tail(a))) # <<>>
    \/ /\ c = w_todo /\ Len(a) >= 2 /\ a[1] = w_done
       /\ IsDigit(a[2]) /\ IntOk(a[2])
       /\ HasList(st, w_todos) /\ PyInt(a[2]) \in 1..Len(TodosOf(st))

(* C19: once started, only `note` with a first argument other than list,   *)
(* `todo add` with a non-blank description and `todo done` with a number   *)
(* in range change the in-memory state or write the file.                  *)
C19_OnlyThreeStore ==
    [][(pc # "start" /\ (State' # State \/ file' # file)) =>
        pc = "EXECUTING" /\ Storing(cmd, args, State)]_vars

C19_Witness ==
    /\ pc = "READING" /\ HISTORY = <<L_todo_add_blank>>
    /\ cmd = w_todo /\ args = <<w_add, <<" ">>>>
    /\ Len(out) = 1 /\ out[1].msg = "Provide a task description."
    /\ HasList(State, w_todos) /\ Len(TodosOf(State)) = 2 /\ ~mutated

=============================================================================
